---- MODULE Spec2Model ----
(***************************************************************************)
(* Twitter ETL job run by Airflow: run_twitter_etl and its nested helpers  *)
(* check_rate_limits, get_user_tweets, transform_tweets and upload_to_s3.  *)
(* The repository holds two versions of the job: src/p.py (credentials     *)
(* from Airflow Variables, quota pre-check, bounded retries with           *)
(* exponential backoff) and src/twitter_etl.py (the module the DAG of      *)
(* src/python_dag.py imports: hard-coded credentials, no pre-check, a      *)
(* fixed wait and no retry bound).  impl selects the version.              *)
(***************************************************************************)
EXTENDS Integers, Sequences, FiniteSets, TLC

\* ---------------------------------------------------------------- bounds
MaxCount == 3          \* largest small count handed to get_user_tweets
MaxRetriesArg == 2     \* largest max_retries handed to get_user_tweets
MaxPosts == 4          \* largest small number of posts of the account
MaxPage == 2           \* largest page the API returns besides the requested size
MaxRateLimitHits == 3  \* rate-limit errors the API raises in one call (caps twitter_etl.py's loop)
MaxRuns == 2           \* job runs the scheduler starts
MaxTweets == 3         \* longest list handed to transform_tweets on its own
MaxTime == 3           \* latest creation time of a post handed to transform_tweets

\* ------------------------------------------------------ program constants
PageCap == 100         \* min(remaining_count, 100)
None == 0              \* next_token = None ; absent file ; empty S3 key
Partial == -1          \* a file left behind by a to_csv that raised

Impls == {"p", "twitter_etl"}
Key == "twitter_data/tweets.csv"
OtherKey == "other"
Keys == {Key, OtherKey}

Min(a, b) == IF a <= b THEN a ELSE b
Max(a, b) == IF a >= b THEN a ELSE b

RECURSIVE Pow2(_)
Pow2(n) == IF n <= 0 THEN 1 ELSE 2 * Pow2(n - 1)

VARIABLES
  impl,            \* which version of the job runs
  count,           \* get_user_tweets argument
  max_retries,     \* get_user_tweets argument
  initial_wait,    \* get_user_tweets argument (wait_time in twitter_etl.py)
  nposts,          \* posts the account has (the API's data)
  run,             \* number of the current job run
  pc,              \* position of the run
  steps,           \* job steps entered in this run, in order
  err,             \* error the run raised to the scheduler ("" = none)
  tweets,          \* get_user_tweets: accumulated posts
  next_token,      \* get_user_tweets: pagination token
  remaining_count, \* get_user_tweets: posts still wanted
  retries,         \* get_user_tweets: rate-limit retries so far (p.py)
  waits,           \* durations handed to time.sleep in this call, in order
  lastReq,         \* the last page request issued and how it ended
  nRequests,       \* page requests issued in this call
  nRateLimited,    \* page requests answered with TooManyRequests
  nNonEmpty,       \* page requests answered with a non-empty page
  reqAtAbort,      \* nRequests when an API error aborted the call (-1 = none)
  fetchExit,       \* which return statement ended get_user_tweets
  result,          \* value get_user_tweets returned
  localFile,       \* /tmp/tweets.csv: None, Partial, or the run that wrote it
  s3,              \* object store: key -> None or the run whose snapshot it holds
  lastSuccess,     \* most recent run that returned normally (None = none)
  quotaAnswer,     \* what get_rate_limit_status answered in this run
  remaining_requests, \* value check_rate_limits returned (-1 = not called)
  user,            \* how client.get_user ended in this call
  apiHonest,       \* the API served consecutive pages of the requested size so far
  apiToken,        \* next token of the most recent successful page (None = none)
  firstHitAfter,   \* non-empty pages fetched before the first rate-limit error (-1 = no error yet)
  uploadFileCalls, \* calls of s3.upload_file in this run
  tweetsIn,        \* transform_tweets on its own: the list handed to it
  df,              \* transform_tweets on its own: the frame it returned
  tpc              \* transform_tweets on its own: "idle", "input" or "output"

params == <<impl, count, max_retries, initial_wait, nposts>>
fetchVars == <<tweets, next_token, remaining_count, retries, waits, lastReq,
               nRequests, nRateLimited, nNonEmpty, reqAtAbort, fetchExit, result>>
storeVars == <<localFile, s3, lastSuccess>>
quotaVars == <<quotaAnswer, remaining_requests>>
apiVars == <<apiHonest, apiToken, firstHitAfter>>
tfVars == <<tweetsIn, df, tpc>>
vars == <<params, run, pc, steps, err, fetchVars, storeVars, quotaVars, user,
          apiVars, uploadFileCalls, tfVars>>

NoReq == [token |-> None, size |-> 0, outcome |-> "none"]
NoAnswer == [raised |-> FALSE, remaining |-> -1]

\* the small argument values, and one just above the page cap
Counts == (-1 .. MaxCount) \cup {PageCap + 1}
Accounts == (0 .. MaxPosts) \cup {PageCap + 2}

StartPc(i) == IF i = "p" THEN "creds" ELSE "client"

\* the state of a run before its first statement
RunInit ==
  /\ pc = StartPc(impl)
  /\ steps = <<>>
  /\ err = ""
  /\ tweets = <<>>
  /\ next_token = None
  /\ remaining_count = 0
  /\ retries = 0
  /\ waits = <<>>
  /\ lastReq = NoReq
  /\ nRequests = 0
  /\ nRateLimited = 0
  /\ nNonEmpty = 0
  /\ reqAtAbort = -1
  /\ fetchExit = "none"
  /\ result = <<>>
  /\ quotaAnswer = NoAnswer
  /\ remaining_requests = -1
  /\ user = "none"
  /\ apiHonest = TRUE
  /\ apiToken = None
  /\ firstHitAfter = -1
  /\ uploadFileCalls = 0

Init ==
  /\ impl \in Impls
  /\ count \in Counts
  /\ max_retries \in 0 .. MaxRetriesArg
  /\ initial_wait \in {60}
  /\ nposts \in Accounts
  /\ run = 1
  /\ RunInit
  /\ localFile = None
  /\ s3 = [k \in Keys |-> None]
  /\ lastSuccess = None
  /\ tweetsIn = <<>>
  /\ df = <<>>
  /\ tpc = "idle"

\* ------------------------------------------------------- pure helpers
\* mutant: the page cap is missing
BatchSizeUncapped(rem) == rem

\* batch_size = min(remaining_count, 100)
BatchSize(rem) == Min(rem, PageCap)

\* mutant: the loop is entered with nothing left to fetch
LoopCondInclusive ==
  IF impl = "p" THEN remaining_count >= 0 /\ retries < max_retries
  ELSE remaining_count >= 0

\* the while condition of the fetch loop
LoopCond ==
  IF impl = "p" THEN remaining_count > 0 /\ retries < max_retries
  ELSE remaining_count > 0

\* wait_time = initial_wait * (2 ** (retries - 1)), r the incremented retries;
\* twitter_etl.py sleeps its fixed wait_time
BackoffWait(iw, r) == IF impl = "p" THEN iw * Pow2(r - 1) ELSE iw

\* if not next_token or len(tweets) >= count: break
StopAfterPage(tok, tw) == tok = None \/ Len(tw) >= count

\* mutant: the check misses the case retries = max_retries
RetriesExhaustedStrict == impl = "p" /\ retries > max_retries

\* if retries >= max_retries: return []   (p.py only)
RetriesExhausted == impl = "p" /\ retries >= max_retries

\* mutant: the result is returned unsliced
SliceWhole(s, c) == s

\* Python's s[:c], negative c included
Slice(s, c) ==
  IF c >= 0 THEN SubSeq(s, 1, Min(c, Len(s)))
  ELSE SubSeq(s, 1, Max(Len(s) + c, 0))

\* the posts the API serves from position t on, k of them
Page(t, k) == [i \in 1 .. k |-> t + i]

\* page sizes the API may answer a request for m posts at position t with:
\* the requested size, all the posts left, or (among the first MaxPosts
\* posts) a small page whatever was requested
PageSizes(t, m) ==
  {k \in (1 .. MaxPage) \cup {m, nposts - t} :
     /\ k >= 1
     /\ t + k <= nposts
     /\ (k = m \/ k = nposts - t \/ t + k <= MaxPosts)}

\* the order of the job steps
StepOrder(i) ==
  IF i = "p"
  THEN <<"creds", "client", "precheck", "fetch", "transform", "write", "upload">>
  ELSE <<"client", "fetch", "transform", "write", "upload">>

Terminal == {"done", "failed", "killed"}

Enter(step) == steps' = Append(steps, step)

Raise(msg) == pc' = "failed" /\ err' = msg

\* get_user_tweets returns r through the return statement named by exit
Return(r, exit) ==
  /\ result' = r
  /\ fetchExit' = exit
  /\ pc' = "fetched"

\* ------------------------------------------------------------ job driver
\* Variable.get of the five credentials: all present, or one raises
LoadCredentials ==
  /\ pc = "creds"
  /\ Enter("creds")
  /\ \/ pc' = "client" /\ err' = err
     \/ Raise("credentials")
  /\ UNCHANGED <<params, run, fetchVars, storeVars, quotaVars, user, apiVars,
                 uploadFileCalls, tfVars>>

\* tweepy.Client(...)
ConstructClient ==
  /\ pc = "client"
  /\ Enter("client")
  /\ \/ pc' = (IF impl = "p" THEN "precheck" ELSE "get_user") /\ err' = err
     \/ Raise("client")
  /\ UNCHANGED <<params, run, fetchVars, storeVars, quotaVars, user, apiVars,
                 uploadFileCalls, tfVars>>

\* what client.get_rate_limit_status() may answer: it raised, or a quota
QuotaAnswers == {[raised |-> TRUE, remaining |-> 0],
                 [raised |-> FALSE, remaining |-> 0],
                 [raised |-> FALSE, remaining |-> 1]}

\* mutant: a failed status read counts as quota left
CheckRateLimitsOptimistic(answer) ==
  IF answer.raised THEN 1 ELSE answer.remaining

\* check_rate_limits: the remaining quota, or 0 when reading it raised
CheckRateLimits(answer) ==
  IF answer.raised THEN 0 ELSE answer.remaining

\* mutant: the job goes on with no request left
QuotaExhaustedLax(r) == r < 0

\* if remaining_requests < 1
QuotaExhausted(r) == r < 1

\* remaining_requests = check_rate_limits(client); if < 1: raise
QuotaPreCheck ==
  /\ pc = "precheck"
  /\ Enter("precheck")
  /\ \E answer \in QuotaAnswers :
       /\ quotaAnswer' = answer
       /\ remaining_requests' = CheckRateLimits(answer)
       /\ IF QuotaExhausted(remaining_requests')
          THEN Raise("Rate limit exhausted.")
          ELSE pc' = "get_user" /\ err' = err
  /\ UNCHANGED <<params, run, fetchVars, storeVars, user, apiVars,
                 uploadFileCalls, tfVars>>

\* ------------------------------------------------------ get_user_tweets
\* mutant: a user that was not found is not tested for
GetUserUnchecked ==
  /\ pc = "get_user"
  /\ Enter("fetch")
  /\ \/ /\ user' = "found"
        /\ apiHonest' = apiHonest
     \/ /\ user' = "not_found"
        /\ apiHonest' = FALSE
  /\ pc' = "while"
  /\ tweets' = <<>>
  /\ next_token' = None
  /\ remaining_count' = count
  /\ retries' = 0
  /\ UNCHANGED <<reqAtAbort, fetchExit, result>>
  /\ UNCHANGED <<params, run, err, waits, lastReq, nRequests, nRateLimited,
                 nNonEmpty, storeVars, quotaVars, apiToken, firstHitAfter,
                 uploadFileCalls, tfVars>>

\* user = client.get_user(username): found and the locals initialised, not
\* found, or the call raised (the outer except returns [])
GetUser ==
  /\ pc = "get_user"
  /\ Enter("fetch")
  /\ \/ /\ user' = "found"
        /\ apiHonest' = apiHonest
        /\ pc' = "while"
        /\ tweets' = <<>>
        /\ next_token' = None
        /\ remaining_count' = count
        /\ retries' = 0
        /\ UNCHANGED <<reqAtAbort, fetchExit, result>>
     \/ /\ user' = "not_found"
        /\ apiHonest' = FALSE
        /\ Return(<<>>, "user_not_found")
        /\ UNCHANGED <<tweets, next_token, remaining_count, retries, reqAtAbort>>
     \/ /\ user' = "error"
        /\ apiHonest' = FALSE
        /\ Return(<<>>, "exception")
        /\ reqAtAbort' = nRequests
        /\ UNCHANGED <<tweets, next_token, remaining_count, retries>>
  /\ UNCHANGED <<params, run, err, waits, lastReq, nRequests, nRateLimited,
                 nNonEmpty, storeVars, quotaVars, apiToken, firstHitAfter,
                 uploadFileCalls, tfVars>>

\* while remaining_count > 0 and retries < max_retries
WhileTest ==
  /\ pc = "while"
  /\ pc' = IF LoopCond THEN "request" ELSE "after_loop"
  /\ UNCHANGED <<params, run, steps, err, fetchVars, storeVars, quotaVars, user,
                 apiVars, uploadFileCalls, tfVars>>

\* client.get_users_tweets(max_results=batch_size, pagination_token=next_token)
Issue(outcome) ==
  /\ lastReq' = [token |-> next_token, size |-> BatchSize(remaining_count),
                 outcome |-> outcome]
  /\ nRequests' = nRequests + 1

\* the answer an API serving the account's posts page by page gives a request
\* for m posts at position t: the next min(m, posts left) posts, and a next
\* token while posts are left after them
HonestPage(t, m, k, tok) ==
  /\ k = Min(m, nposts - t)
  /\ tok = IF t + k < nposts THEN t + k ELSE None

\* mutant: the next token of the response is not kept
PageNonEmptyStaleToken ==
  /\ pc = "request"
  /\ \E k \in PageSizes(next_token, BatchSize(remaining_count)) :
     \E tok \in {None, next_token + k} :
       /\ Issue("ok")
       /\ tweets' = tweets \o Page(next_token, k)
       /\ remaining_count' = remaining_count - k
       /\ next_token' = next_token
       /\ apiToken' = tok
       /\ apiHonest' = (apiHonest /\ HonestPage(next_token, lastReq'.size, k, tok))
       /\ pc' = IF StopAfterPage(tok, tweets') THEN "after_loop" ELSE "while"
  /\ nNonEmpty' = nNonEmpty + 1
  /\ UNCHANGED <<params, run, steps, err, retries, waits, nRateLimited,
                 reqAtAbort, fetchExit, result, storeVars, quotaVars, user,
                 firstHitAfter, uploadFileCalls, tfVars>>

\* mutant: a successful page resets the retry counter
PageNonEmptyResets ==
  /\ pc = "request"
  /\ \E k \in PageSizes(next_token, BatchSize(remaining_count)) :
     \E tok \in {None, next_token + k} :
       /\ Issue("ok")
       /\ tweets' = tweets \o Page(next_token, k)
       /\ remaining_count' = remaining_count - k
       /\ next_token' = tok
       /\ apiToken' = tok
       /\ apiHonest' = (apiHonest /\ HonestPage(next_token, lastReq'.size, k, tok))
       /\ pc' = IF StopAfterPage(tok, tweets') THEN "after_loop" ELSE "while"
  /\ nNonEmpty' = nNonEmpty + 1
  /\ retries' = 0
  /\ UNCHANGED <<params, run, steps, err, waits, nRateLimited,
                 reqAtAbort, fetchExit, result, storeVars, quotaVars, user,
                 firstHitAfter, uploadFileCalls, tfVars>>

\* mutant: remaining_count is counted down by the size asked for
PageNonEmptyCountsBatch ==
  /\ pc = "request"
  /\ \E k \in PageSizes(next_token, BatchSize(remaining_count)) :
     \E tok \in {None, next_token + k} :
       /\ Issue("ok")
       /\ tweets' = tweets \o Page(next_token, k)
       /\ remaining_count' = remaining_count - BatchSize(remaining_count)
       /\ next_token' = tok
       /\ apiToken' = tok
       /\ apiHonest' = (apiHonest /\ HonestPage(next_token, lastReq'.size, k, tok))
       /\ pc' = IF StopAfterPage(tok, tweets') THEN "after_loop" ELSE "while"
  /\ nNonEmpty' = nNonEmpty + 1
  /\ UNCHANGED <<params, run, steps, err, retries, waits, nRateLimited,
                 reqAtAbort, fetchExit, result, storeVars, quotaVars, user,
                 firstHitAfter, uploadFileCalls, tfVars>>

\* the response holds k posts and the token tok: extend, count down, maybe break
PageNonEmpty ==
  /\ pc = "request"
  /\ \E k \in PageSizes(next_token, BatchSize(remaining_count)) :
     \E tok \in {None, next_token + k} :
       /\ Issue("ok")
       /\ tweets' = tweets \o Page(next_token, k)
       /\ remaining_count' = remaining_count - k
       /\ next_token' = tok
       /\ apiToken' = tok
       /\ apiHonest' = (apiHonest /\ HonestPage(next_token, lastReq'.size, k, tok))
       /\ pc' = IF StopAfterPage(tok, tweets') THEN "after_loop" ELSE "while"
  /\ nNonEmpty' = nNonEmpty + 1
  /\ UNCHANGED <<params, run, steps, err, retries, waits, nRateLimited,
                 reqAtAbort, fetchExit, result, storeVars, quotaVars, user,
                 firstHitAfter, uploadFileCalls, tfVars>>

\* if not response.data: break
PageEmpty ==
  /\ pc = "request"
  /\ Issue("empty")
  /\ apiHonest' = (apiHonest /\ next_token = nposts)
  /\ pc' = "after_loop"
  /\ UNCHANGED <<params, run, steps, err, tweets, next_token, remaining_count,
                 retries, waits, nRateLimited, nNonEmpty, reqAtAbort, fetchExit,
                 result, storeVars, quotaVars, user, apiToken, firstHitAfter,
                 uploadFileCalls, tfVars>>

\* mutant: the rate-limited page is counted as fetched
PageRateLimitedSkip ==
  /\ pc = "request"
  /\ nRateLimited < MaxRateLimitHits
  /\ Issue("rate_limit")
  /\ nRateLimited' = nRateLimited + 1
  /\ retries' = IF impl = "p" THEN retries + 1 ELSE retries
  /\ waits' = Append(waits, BackoffWait(initial_wait, retries'))
  /\ firstHitAfter' = IF firstHitAfter < 0 THEN nNonEmpty ELSE firstHitAfter
  /\ remaining_count' = remaining_count - BatchSize(remaining_count)
  /\ pc' = "while"
  /\ UNCHANGED <<params, run, steps, err, tweets, next_token,
                 nNonEmpty, reqAtAbort, fetchExit, result, storeVars, quotaVars,
                 user, apiHonest, apiToken, uploadFileCalls, tfVars>>

\* except tweepy.TooManyRequests: retries += 1; sleep; continue
PageRateLimited ==
  /\ pc = "request"
  /\ nRateLimited < MaxRateLimitHits
  /\ Issue("rate_limit")
  /\ nRateLimited' = nRateLimited + 1
  /\ retries' = IF impl = "p" THEN retries + 1 ELSE retries
  /\ waits' = Append(waits, BackoffWait(initial_wait, retries'))
  /\ firstHitAfter' = IF firstHitAfter < 0 THEN nNonEmpty ELSE firstHitAfter
  /\ pc' = "while"
  /\ UNCHANGED <<params, run, steps, err, tweets, next_token, remaining_count,
                 nNonEmpty, reqAtAbort, fetchExit, result, storeVars, quotaVars,
                 user, apiHonest, apiToken, uploadFileCalls, tfVars>>

\* mutant: an API error ends the loop and the posts gathered so far are returned
PageApiErrorPartial ==
  /\ pc = "request"
  /\ Issue("api_error")
  /\ apiHonest' = FALSE
  /\ reqAtAbort' = nRequests'
  /\ Return(Slice(tweets, count), IF impl = "p" THEN "api_error" ELSE "exception")
  /\ UNCHANGED <<params, run, steps, err, tweets, next_token, remaining_count,
                 retries, waits, nRateLimited, nNonEmpty, storeVars, quotaVars,
                 user, apiToken, firstHitAfter, uploadFileCalls, tfVars>>

\* except tweepy.TweepyException: return []  (twitter_etl.py: the outer except)
PageApiError ==
  /\ pc = "request"
  /\ Issue("api_error")
  /\ apiHonest' = FALSE
  /\ reqAtAbort' = nRequests'
  /\ Return(<<>>, IF impl = "p" THEN "api_error" ELSE "exception")
  /\ UNCHANGED <<params, run, steps, err, tweets, next_token, remaining_count,
                 retries, waits, nRateLimited, nNonEmpty, storeVars, quotaVars,
                 user, apiToken, firstHitAfter, uploadFileCalls, tfVars>>

\* mutant: used-up retries are raised to the driver as the rate-limit error
AfterLoopRaises ==
  /\ pc = "after_loop"
  /\ IF RetriesExhausted
     THEN Raise("Rate limit exhausted.") /\ fetchExit' = "max_retries" /\ result' = <<>>
     ELSE Return(Slice(tweets, count), "normal") /\ err' = err
  /\ UNCHANGED <<params, run, steps, tweets, next_token, remaining_count,
                 retries, waits, lastReq, nRequests, nRateLimited, nNonEmpty,
                 reqAtAbort, storeVars, quotaVars, user, apiVars,
                 uploadFileCalls, tfVars>>

\* after the loop: [] when the retries ran out, else tweets[:count]
AfterLoop ==
  /\ pc = "after_loop"
  /\ IF RetriesExhausted
     THEN Return(<<>>, "max_retries")
     ELSE Return(Slice(tweets, count), "normal")
  /\ UNCHANGED <<params, run, steps, err, tweets, next_token, remaining_count,
                 retries, waits, lastReq, nRequests, nRateLimited, nNonEmpty,
                 reqAtAbort, storeVars, quotaVars, user, apiVars,
                 uploadFileCalls, tfVars>>

\* ------------------------------------------------------ transform and sink
\* mutant: the emptiness test is missing
IfTweetsUnchecked ==
  /\ pc = "fetched"
  /\ Enter("transform") /\ pc' = "write" /\ err' = err
  /\ UNCHANGED <<params, run, fetchVars, storeVars, quotaVars, user, apiVars,
                 uploadFileCalls, tfVars>>

\* if tweets: df = transform_tweets(tweets) ... else: raise ValueError
IfTweets ==
  /\ pc = "fetched"
  /\ IF result # <<>>
     THEN Enter("transform") /\ pc' = "write" /\ err' = err
     ELSE Raise("No tweets fetched, failing task.") /\ steps' = steps
  /\ UNCHANGED <<params, run, fetchVars, storeVars, quotaVars, user, apiVars,
                 uploadFileCalls, tfVars>>

\* mutant: a failed to_csv is logged and not re-raised
WriteCsvSwallow ==
  /\ pc = "write"
  /\ Enter("write")
  /\ \/ localFile' = run
     \/ localFile' \in {localFile, Partial}
  /\ pc' = "upload"
  /\ err' = err
  /\ UNCHANGED <<params, run, fetchVars, s3, lastSuccess, quotaVars, user,
                 apiVars, uploadFileCalls, tfVars>>

\* df.to_csv(local_path): the file now holds this run's rows, or to_csv
\* raised and left the file as it was or half written
WriteCsv ==
  /\ pc = "write"
  /\ Enter("write")
  /\ \/ localFile' = run /\ pc' = "upload" /\ err' = err
     \/ localFile' \in {localFile, Partial} /\ Raise("write")
  /\ UNCHANGED <<params, run, fetchVars, s3, lastSuccess, quotaVars, user,
                 apiVars, uploadFileCalls, tfVars>>

\* mutant: the test for the local file is missing
ExistsUnchecked(f) == TRUE

\* os.path.exists(local_file)
Exists(f) == f # None

\* mutant: a failed transfer is logged and not re-raised
UploadToS3Swallow ==
  /\ pc = "upload"
  /\ Enter("upload")
  /\ \/ /\ ~Exists(localFile)
        /\ Raise("upload: FileNotFoundError")
        /\ UNCHANGED <<s3, lastSuccess, uploadFileCalls>>
     \/ /\ Exists(localFile)
        /\ uploadFileCalls' = uploadFileCalls + 1
        /\ s3' = [s3 EXCEPT ![Key] = localFile]
        /\ lastSuccess' = run
        /\ pc' = "done"
        /\ err' = err
     \/ /\ Exists(localFile)
        /\ uploadFileCalls' = uploadFileCalls + 1
        /\ pc' = "done" /\ err' = err /\ lastSuccess' = run /\ s3' = s3
  /\ UNCHANGED <<params, run, fetchVars, localFile, quotaVars, user, apiVars,
                 tfVars>>

\* upload_to_s3: the file is missing and FileNotFoundError is raised before
\* s3.upload_file is called; or s3.upload_file stores the file under the key
\* and the run returns; or s3.upload_file raises
UploadToS3 ==
  /\ pc = "upload"
  /\ Enter("upload")
  /\ \/ /\ ~Exists(localFile)
        /\ Raise("upload: FileNotFoundError")
        /\ UNCHANGED <<s3, lastSuccess, uploadFileCalls>>
     \/ /\ Exists(localFile)
        /\ uploadFileCalls' = uploadFileCalls + 1
        /\ s3' = [s3 EXCEPT ![Key] = localFile]
        /\ lastSuccess' = run
        /\ pc' = "done"
        /\ err' = err
     \/ /\ Exists(localFile)
        /\ uploadFileCalls' = uploadFileCalls + 1
        /\ Raise("upload: transfer failed")
        /\ UNCHANGED <<s3, lastSuccess>>
  /\ UNCHANGED <<params, run, fetchVars, localFile, quotaVars, user, apiVars,
                 tfVars>>

\* ------------------------------------------------------------ environment
\* /tmp/tweets.csv disappears (the reason upload_to_s3 tests for it)
LocalFileRemoved ==
  /\ pc = "upload"
  /\ localFile # None
  /\ localFile' = None
  /\ UNCHANGED <<params, run, pc, steps, err, fetchVars, s3, lastSuccess,
                 quotaVars, user, apiVars, uploadFileCalls, tfVars>>

\* the scheduler kills the running task: its locals are gone with the process
Kill ==
  /\ pc \notin Terminal
  /\ pc' = "killed"
  /\ tweets' = <<>>
  /\ next_token' = None
  /\ remaining_count' = 0
  /\ retries' = 0
  /\ waits' = <<>>
  /\ lastReq' = NoReq
  /\ nRequests' = 0
  /\ nRateLimited' = 0
  /\ nNonEmpty' = 0
  /\ reqAtAbort' = -1
  /\ fetchExit' = "none"
  /\ result' = <<>>
  /\ quotaAnswer' = NoAnswer
  /\ remaining_requests' = -1
  /\ user' = "none"
  /\ apiHonest' = TRUE
  /\ apiToken' = None
  /\ firstHitAfter' = -1
  /\ UNCHANGED <<params, run, steps, err, storeVars, uploadFileCalls, tfVars>>

\* the scheduler starts the next run (a retry or the next day's run)
NextRun ==
  /\ pc \in Terminal
  /\ run < MaxRuns
  /\ UNCHANGED <<params, storeVars, tfVars>>
  /\ run' = run + 1
  /\ pc' = StartPc(impl)
  /\ steps' = <<>>
  /\ err' = ""
  /\ tweets' = <<>>
  /\ next_token' = None
  /\ remaining_count' = 0
  /\ retries' = 0
  /\ waits' = <<>>
  /\ lastReq' = NoReq
  /\ nRequests' = 0
  /\ nRateLimited' = 0
  /\ nNonEmpty' = 0
  /\ reqAtAbort' = -1
  /\ fetchExit' = "none"
  /\ result' = <<>>
  /\ quotaAnswer' = NoAnswer
  /\ remaining_requests' = -1
  /\ user' = "none"
  /\ apiHonest' = TRUE
  /\ apiToken' = None
  /\ firstHitAfter' = -1
  /\ uploadFileCalls' = 0


\* ----------------------------------------------------- transform_tweets
\* creation times: NaT stands for a value pd.to_datetime(errors='coerce')
\* cannot parse, 1 .. MaxTime for the parsable ones in time order
NaT == 0
Times == 0 .. MaxTime

\* the lists handed to transform_tweets on its own: post i has id i
Inputs ==
  UNION {[1 .. n -> [id : {0}, created_at : Times]] : n \in 0 .. MaxTweets}

NumberIds(tw) == [i \in 1 .. Len(tw) |-> [tw[i] EXCEPT !.id = i]]

\* df['id'].astype(str): the decimal text of the id
Str(i) == <<"str", i>>

\* the columns set before the sort
Row(t) == [id |-> Str(t.id), created_at |-> t.created_at]

\* r put after every row of s that is not older (rows without a time last)
InsertDesc(r, s) ==
  LET n == Cardinality({i \in 1 .. Len(s) : s[i].created_at >= r.created_at})
  IN SubSeq(s, 1, n) \o <<r>> \o SubSeq(s, n + 1, Len(s))

RECURSIVE SortDesc(_)
SortDesc(s) ==
  IF s = <<>> THEN <<>>
  ELSE InsertDesc(s[Len(s)], SortDesc(SubSeq(s, 1, Len(s) - 1)))

\* mutant: ascending=False is missing
SortValuesAscending(rows) ==
  LET d == SortDesc(rows) IN [i \in 1 .. Len(d) |-> d[Len(d) + 1 - i]]

\* df.sort_values(by='created_at', ascending=False): newest first, NaT last
\* (the order of rows of equal time is the sort's choice; here the input's)
SortValues(rows) == SortDesc(rows)

\* transform_tweets(tweets)
TransformTweets(tw) ==
  IF tw = <<>> THEN <<>>
  ELSE SortValues([i \in 1 .. Len(tw) |-> Row(tw[i])])

\* a call of transform_tweets on its own
Transform ==
  /\ tpc = "input"
  /\ df' = TransformTweets(tweetsIn)
  /\ tpc' = "output"
  /\ UNCHANGED <<params, run, pc, steps, err, fetchVars, storeVars, quotaVars,
                 user, apiVars, uploadFileCalls, tweetsIn>>

InitTransform ==
  /\ impl = "p"
  /\ count = 5
  /\ max_retries = 3
  /\ initial_wait = 60
  /\ nposts = 0
  /\ run = 1
  /\ RunInit
  /\ localFile = None
  /\ s3 = [k \in Keys |-> None]
  /\ lastSuccess = None
  /\ tweetsIn \in {NumberIds(tw) : tw \in Inputs}
  /\ df = <<>>
  /\ tpc = "input"

NextTransform == Transform

SpecTransform == InitTransform /\ [][NextTransform]_vars

Next ==
  \/ LoadCredentials
  \/ ConstructClient
  \/ QuotaPreCheck
  \/ GetUser
  \/ WhileTest
  \/ PageNonEmpty
  \/ PageEmpty
  \/ PageRateLimited
  \/ PageApiError
  \/ AfterLoop
  \/ IfTweets
  \/ WriteCsv
  \/ UploadToS3
  \/ LocalFileRemoved
  \/ Kill
  \/ NextRun

Spec == Init /\ [][Next]_vars

\* ================================================================ claims
FetchReturned == fetchExit # "none"
NoTweetsMsg == "No tweets fetched, failing task."
QuotaMsg == "Rate limit exhausted."
IsPrefix(a, b) == Len(a) <= Len(b) /\ a = SubSeq(b, 1, Len(a))
Consecutive(tw) == tw = Page(None, Len(tw))

\* the requests of one call are bounded by the arguments: at most max_retries
\* rate-limited attempts and at most count non-empty pages
FetchBounded ==
  /\ nRateLimited <= Max(max_retries, 0)
  /\ nNonEmpty <= Max(count, 0)

\* C1: every call of get_user_tweets terminates: in one call at most
\* max_retries page requests are answered with the rate-limit error and at
\* most count with a non-empty page, whatever the API answers.
\* Violated by twitter_etl.py, whose loop ignores max_retries.
C1_RequestsBounded == FetchBounded

\* C1, src/p.py alone: the bound holds where the loop tests retries
C1_RequestsBounded_p == impl = "p" => FetchBounded

\* C2 as stated: the returned sequence never has more than count items, for
\* every count.  Violated by a negative count: the result has 0 items.
C2_AtMostCount == FetchReturned => Len(result) <= count

\* C2 amended: the returned sequence never has more than max(count, 0)
\* items, and it is shorter than count when the account has fewer posts
\* than count.
C2_AtMostCountOrZero ==
  FetchReturned =>
    /\ Len(result) <= Max(count, 0)
    /\ nposts < count => Len(result) < count

\* a page larger than what was still wanted was accumulated, and the call
\* returned exactly count posts of it
C2_Witness ==
  /\ fetchExit = "normal"
  /\ count > 0
  /\ Len(tweets) > count
  /\ Len(result) = count

\* C3: when the loop of p.py is left with retries >= max_retries the call
\* returns the empty sequence, whatever had been accumulated.
C3_ExhaustedReturnsEmpty ==
  (impl = "p" /\ fetchExit \in {"normal", "max_retries"} /\ retries >= max_retries)
    => result = <<>>

\* posts had been accumulated before the last permitted retry was used up
C3_Witness ==
  /\ impl = "p"
  /\ fetchExit = "max_retries"
  /\ max_retries > 0
  /\ nRateLimited = max_retries
  /\ Len(tweets) > 0
  /\ result = <<>>

\* C4: the k-th rate-limit error of a call is followed by a wait of
\* initial_wait * 2^(k-1), and retries counts the rate-limit errors.
\* Violated by twitter_etl.py, which waits the same time after every one.
C4_WaitsDouble ==
  /\ \A k \in 1 .. Len(waits) : waits[k] = initial_wait * Pow2(k - 1)
  /\ Len(waits) = nRateLimited

\* C4, src/p.py alone
C4_WaitsDouble_p ==
  impl = "p" =>
    /\ \A k \in 1 .. Len(waits) : waits[k] = initial_wait * Pow2(k - 1)
    /\ retries = nRateLimited
    /\ Len(waits) = retries

\* C5: once a page request or the user resolution failed with an API error
\* that is no rate-limit error, the call has returned the empty sequence and
\* issued no further request.
C5_ApiErrorAborts ==
  reqAtAbort >= 0 =>
    /\ FetchReturned
    /\ pc \notin {"get_user", "while", "request", "after_loop"}
    /\ result = <<>>
    /\ nRequests = reqAtAbort

\* a page request failed after posts had been accumulated
C5_Witness ==
  /\ reqAtAbort >= 2
  /\ lastReq.outcome = "api_error"
  /\ Len(tweets) > 0
  /\ result = <<>>

\* C6: a rate-limit error leaves the token, the accumulated posts and the
\* remaining count as they were, the request after it carries the same
\* token and the same size, and the accumulation never skips or repeats a
\* post of the account.
C6_RateLimitFrame ==
  /\ [](pc \in {"while", "request", "after_loop"} => Consecutive(tweets))
  /\ [][/\ nRateLimited' = nRateLimited + 1 =>
              /\ tweets' = tweets
              /\ next_token' = next_token
              /\ remaining_count' = remaining_count
        /\ (lastReq.outcome = "rate_limit" /\ nRequests' = nRequests + 1) =>
              /\ lastReq'.token = lastReq.token
              /\ lastReq'.size = lastReq.size]_vars

\* a page was rate-limited, asked for again and served, and a later page
\* followed it
C6_Witness ==
  /\ nRateLimited >= 1
  /\ nNonEmpty >= 2
  /\ lastReq.outcome = "ok"
  /\ lastReq.token # None
  /\ nRequests = nRateLimited + nNonEmpty
  /\ Len(waits) = 1
  /\ fetchExit = "normal"
  /\ Len(result) >= 2
  /\ Consecutive(result)

\* C7: a run whose fetch returned the empty sequence writes no local file
\* and attempts no upload, and it ends raising the no-data error.
C7_NoDataFailsRun ==
  (FetchReturned /\ result = <<>>) =>
    /\ "write" \notin {steps[i] : i \in 1 .. Len(steps)}
    /\ "upload" \notin {steps[i] : i \in 1 .. Len(steps)}
    /\ localFile # run
    /\ s3[Key] # run
    /\ pc \in {"fetched", "failed", "killed"}
    /\ pc = "failed" => err = NoTweetsMsg

\* a second run fetched nothing and left the first run's file and object alone
C7_Witness ==
  /\ run = 2
  /\ pc = "failed"
  /\ err = NoTweetsMsg
  /\ fetchExit = "normal"
  /\ result = <<>>
  /\ localFile = 1
  /\ s3[Key] = 1

\* the step a raised error comes from
FailedStep(e) ==
  CASE e = "credentials" -> "creds"
    [] e = "client" -> "client"
    [] e = QuotaMsg -> "precheck"
    [] e = NoTweetsMsg -> "fetch"
    [] e = "write" -> "write"
    [] OTHER -> "upload"

\* C8: the steps of a run are entered in the fixed order; a run that raised
\* entered no step after the failed one; a run returns normally only after
\* every step, the upload included, succeeded.
C8_StepsInOrder ==
  /\ IsPrefix(steps, StepOrder(impl))
  /\ err # "" <=> pc = "failed"
  /\ pc = "failed" => (steps # <<>> /\ steps[Len(steps)] = FailedStep(err))
  /\ pc = "done" => (steps = StepOrder(impl) /\ localFile = run /\ s3[Key] = run)

\* the local write failed and the run ended there
C8_Witness ==
  /\ impl = "p"
  /\ pc = "failed"
  /\ err = "write"
  /\ steps = <<"creds", "client", "precheck", "fetch", "transform", "write">>

\* C9 as stated: a run whose fetch used up its retries fails with the
\* rate-limit error, a run whose fetch met another API failure fails with an
\* API error, both different from the no-data error.  Violated:
\* get_user_tweets returns [] in both cases and the run raises the no-data
\* error.
C9_ErrorKinds ==
  pc = "failed" =>
    /\ fetchExit = "max_retries" => err = QuotaMsg
    /\ fetchExit = "api_error" => (err # NoTweetsMsg /\ err # QuotaMsg)

\* C9 amended: a fetch that used up its retries or met an API failure
\* returns the empty sequence, and the run then fails with the no-data
\* error, as for a fetch that yielded zero posts; the rate-limit error is
\* raised by the quota pre-check alone, before the fetch starts.
C9_FetchFailuresAreNoData ==
  /\ fetchExit \in {"max_retries", "api_error", "exception"} =>
       /\ result = <<>>
       /\ pc \in {"fetched", "failed", "killed"}
       /\ pc = "failed" => err = NoTweetsMsg
  /\ err = QuotaMsg => (impl = "p" /\ fetchExit = "none" /\ nRequests = 0)

\* the retries ran out and the run failed with the no-data error
C9_Witness ==
  /\ pc = "failed"
  /\ fetchExit = "max_retries"
  /\ nRateLimited = max_retries
  /\ max_retries > 0
  /\ err = NoTweetsMsg

\* C10: only the fixed key is ever written, only by the upload step of a run
\* whose local write succeeded, and with that run's snapshot; the key holds
\* the snapshot of the most recent run that returned normally.
C10_KeyHoldsLastSuccess ==
  /\ [](/\ s3[OtherKey] = None
       /\ s3[Key] = lastSuccess
       /\ lastSuccess \in 0 .. run
       /\ pc = "done" => lastSuccess = run)
  /\ [][s3' # s3 =>
          /\ pc = "upload" /\ pc' = "done"
          /\ steps' = StepOrder(impl)
          /\ localFile = run
          /\ s3' = [s3 EXCEPT ![Key] = run]]_vars

\* the second run failed at the local write after the first had uploaded:
\* the key still holds the first run's snapshot
C10_Witness ==
  /\ run = 2
  /\ pc = "failed"
  /\ err = "write"
  /\ localFile = Partial
  /\ s3[Key] = 1
  /\ lastSuccess = 1

StepSet == {steps[i] : i \in 1 .. Len(steps)}
InFetchLoop == pc \in {"while", "request", "after_loop"}

\* C11: when the local file is missing at upload time, upload_to_s3 raises
\* FileNotFoundError to its caller without having called s3.upload_file, and
\* the key is not written.
C11_MissingFileNoTransfer ==
  ("upload" \in StepSet /\ localFile = None) =>
    /\ uploadFileCalls = 0
    /\ pc = "failed"
    /\ err = "upload: FileNotFoundError"
    /\ s3[Key] # run

\* the file written by this run was gone when upload_to_s3 looked for it
C11_Witness ==
  /\ steps = StepOrder(impl)
  /\ localFile = None
  /\ pc = "failed"
  /\ err = "upload: FileNotFoundError"
  /\ uploadFileCalls = 0

\* C12: for count <= 0 get_user_tweets issues no page request and returns
\* the empty sequence, whatever max_retries and the API.
C12_NonPositiveCount ==
  count <= 0 =>
    /\ nRequests = 0
    /\ lastReq = NoReq
    /\ pc # "request"
    /\ result = <<>>

\* the user was found, the loop was skipped and the call returned
C12_Witness ==
  /\ count <= 0
  /\ user = "found"
  /\ fetchExit = "normal"
  /\ nRequests = 0
  /\ result = <<>>

\* C13: when the quota pre-check reports zero remaining requests the run
\* fails with the rate-limit error right there: no user resolution, no page
\* request, no write and no upload happen in that run.
C13_NoQuotaAbortsEarly ==
  (quotaAnswer = [raised |-> FALSE, remaining |-> 0]) =>
    /\ pc = "failed"
    /\ err = QuotaMsg
    /\ steps = <<"creds", "client", "precheck">>
    /\ user = "none"
    /\ nRequests = 0
    /\ fetchExit = "none"
    /\ uploadFileCalls = 0
    /\ localFile # run
    /\ s3[Key] # run

\* a second run found no quota left and left the first run's upload alone
C13_Witness ==
  /\ run = 2
  /\ quotaAnswer = [raised |-> FALSE, remaining |-> 0]
  /\ pc = "failed"
  /\ err = QuotaMsg
  /\ s3[Key] = 1

\* C14: for a non-empty input whose creation times are all valid,
\* transform_tweets returns each input post exactly once, newest first.
C14_SortedPermutation ==
  (/\ tpc = "output"
   /\ tweetsIn # <<>>
   /\ \A i \in 1 .. Len(tweetsIn) : tweetsIn[i].created_at # NaT) =>
    /\ Len(df) = Len(tweetsIn)
    /\ \A i \in 1 .. Len(tweetsIn) :
         Cardinality({j \in 1 .. Len(df) : df[j] = Row(tweetsIn[i])}) = 1
    /\ \A j \in 1 .. Len(df) - 1 : df[j].created_at >= df[j + 1].created_at

\* posts handed over oldest first, two of them of the same time, came back
\* newest first
C14_Witness ==
  /\ tpc = "output"
  /\ Len(tweetsIn) = 3
  /\ tweetsIn[1].created_at = 1
  /\ tweetsIn[2].created_at = 2
  /\ tweetsIn[3].created_at = 2
  /\ df[3] = Row(tweetsIn[1])

\* C15: when the user is not found, get_user_tweets returns the empty
\* sequence through its own return statement, having issued no page request.
C15_UserNotFound ==
  user = "not_found" =>
    /\ fetchExit = "user_not_found"
    /\ result = <<>>
    /\ nRequests = 0
    /\ reqAtAbort = -1
    /\ pc \in {"fetched", "failed"}
    /\ pc = "failed" => err = NoTweetsMsg

\* the call has returned to the driver, which has not yet tested the result
C15_Witness ==
  /\ user = "not_found"
  /\ pc = "fetched"
  /\ result = <<>>
  /\ nRequests = 0

\* C16: against an API that serves the account's posts as consecutive pages
\* of the requested size linked by next tokens, with fewer than max_retries
\* rate-limit errors and no other error, the call returns the first
\* min(count, N) posts in the order served.
C16_HonestApiExactResult ==
  (/\ apiHonest
   /\ fetchExit \in {"normal", "max_retries"}
   /\ nRateLimited < max_retries) =>
    result = Page(None, Min(count, nposts))

\* 101 posts fetched as a page of 100 and a page of 1, with a rate-limit
\* error on the way
C16_Witness ==
  /\ apiHonest
  /\ fetchExit = "normal"
  /\ count = PageCap + 1
  /\ nNonEmpty = 2
  /\ nRateLimited = 1
  /\ max_retries = 2
  /\ result = Page(None, PageCap + 1)

\* C17: every page request asks for min(remaining_count, 100) posts, a
\* number from 1 to 100, and carries the next token of the most recent
\* successful page (none before the first).
C17_RequestShape ==
  [][nRequests' = nRequests + 1 =>
       /\ lastReq'.size = Min(remaining_count, PageCap)
       /\ lastReq'.size \in 1 .. PageCap
       /\ lastReq'.token = apiToken]_vars

\* after a full page of 100, the last post was asked for with that page's token
C17_Witness ==
  /\ lastReq.outcome = "ok"
  /\ lastReq.token = PageCap
  /\ lastReq.size = 1
  /\ nRequests = 2

\* C18: in p.py retries counts every rate-limit error of the call and is not
\* reset by a successful page: the k-th error waits initial_wait * 2^(k-1),
\* and a call that met max_retries errors in total returns the empty
\* sequence.
C18_RetriesCumulative ==
  impl = "p" =>
    /\ retries = nRateLimited
    /\ Len(waits) = nRateLimited
    /\ \A k \in 1 .. Len(waits) : waits[k] = initial_wait * Pow2(k - 1)
    /\ (fetchExit \in {"normal", "max_retries"} /\ nRateLimited >= max_retries)
         => result = <<>>

\* one rate-limit error before the first page and one after it used up
\* max_retries = 2
C18_Witness ==
  /\ impl = "p"
  /\ max_retries = 2
  /\ fetchExit = "max_retries"
  /\ firstHitAfter = 0
  /\ lastReq.outcome = "rate_limit"
  /\ lastReq.token # None
  /\ nNonEmpty >= 1
  /\ waits = <<initial_wait, 2 * initial_wait>>
  /\ tweets # <<>>
  /\ result = <<>>

\* C19: whenever the loop condition is evaluated, and at loop exit,
\* remaining_count = count - len(tweets); so len(tweets) >= count exactly
\* when remaining_count <= 0, and no page is requested with count posts
\* accumulated.
C19_RemainingIsCountMinusLen ==
  InFetchLoop =>
    /\ remaining_count = count - Len(tweets)
    /\ (Len(tweets) >= count) <=> (remaining_count <= 0)
    /\ pc = "request" => Len(tweets) < count

\* a page larger than asked for drove remaining_count below zero
C19_Witness ==
  /\ pc = "after_loop"
  /\ remaining_count < 0
  /\ Len(tweets) > count
  /\ count > 0

\* C20: when reading the rate-limit status raises, check_rate_limits
\* returns 0 and the run fails with the rate-limit error without resolving
\* the user or requesting a page; the fetch of p.py starts only after a
\* pre-check that succeeded and reported at least 1.
C20_PreCheckFailureIsZero ==
  /\ quotaAnswer.raised =>
       /\ remaining_requests = 0
       /\ pc = "failed"
       /\ err = QuotaMsg
       /\ user = "none"
       /\ nRequests = 0
  /\ (impl = "p" /\ (user # "none" \/ nRequests > 0)) =>
       /\ ~quotaAnswer.raised
       /\ quotaAnswer.remaining >= 1
       /\ remaining_requests >= 1

\* the status read raised and the run failed as if no quota were left
C20_Witness ==
  /\ quotaAnswer.raised
  /\ remaining_requests = 0
  /\ pc = "failed"
  /\ err = QuotaMsg
  /\ steps = <<"creds", "client", "precheck">>

====
